---- MODULE Spec2Model ----
(***************************************************************************)
(* Model of PCSX::GPULogger (src/core/gpulogger.cc): the frame-scoped GPU  *)
(* command log, the GTE state tracker, the VRAM baseline and the replay    *)
(* engine.                                                                 *)
(*                                                                         *)
(* Program state is modelled by the m_* variables.  The remaining          *)
(* variables are history variables: they record what the last operation    *)
(* was called with and which effects it produced, in order, so that the    *)
(* properties can speak about them.  No action reads a history variable.   *)
(***************************************************************************)
EXTENDS Integers, Sequences, FiniteSets, TLC

(* ---------------------------------------------------------------------- *)
(* Bounds of the model                                                    *)
(* ---------------------------------------------------------------------- *)
MaxFrame == 2      \* vsync events explored
MaxList  == 2      \* entries the log may hold at once
MaxTrace == 2      \* snapshots in the per-frame GTE trace

(* ---------------------------------------------------------------------- *)
(* Program constants                                                      *)
(* ---------------------------------------------------------------------- *)
\* Commands issued in one run: enough to fill the log and evict it once.
MaxIssue == MaxList + 1

c_maxLoggedWords == 1024
\* enable() gives up when the context has fewer texture units than this.
MinTextureUnits == 5
VRAMWidth  == 1024
VRAMHeight == 512

None == [none |-> TRUE]

(* ---------------------------------------------------------------------- *)
(* Inputs                                                                 *)
(* ---------------------------------------------------------------------- *)
\* GTEState values handed to recordGteState (command and pc identify them).
GTEStates ==
    { [command |-> "RTPS", pc |-> 16, vertexFetches |-> <<>>],
      [command |-> "NCLIP", pc |-> 20, vertexFetches |-> <<>>] }

\* A raw word sequence of n words; word i is i, so that order and prefix are
\* observable.
WordsOfLen(n) == [i \in 1..n |-> i]

\* Nodes as they arrive at addNodeInternal: the variant with its rectangle,
\* the words already collected by the caller, and the two UI flags.
FastFillNode     == [kind |-> "FastFill", x |-> 10, y |-> 20, w |-> 5, h |-> 5,
                     sX |-> 0, sY |-> 0]
BlitVramVramNode == [kind |-> "BlitVramVram", x |-> 100, y |-> 100, w |-> 8, h |-> 8,
                     sX |-> 0, sY |-> 0]
BlitVramRamNode  == [kind |-> "BlitVramRam", x |-> 2, y |-> 3, w |-> 4, h |-> 1,
                     sX |-> 0, sY |-> 0]

\* Calls of addNodeInternal explored by Spec and SpecReplay: a FastFill that
\* arrives without words and a VRAM-to-VRAM blit that arrives with two.
AddCalls ==
    { [node |-> FastFillNode, words |-> <<>>, origin |-> "DATAWRITE",
       value |-> 33554432, length |-> 12, pc |-> 4096],
      [node |-> BlitVramVramNode, words |-> WordsOfLen(2), origin |-> "CHAIN_DMA",
       value |-> 2048, length |-> 16, pc |-> 4100] }

\* Calls of addNodeInternal explored by SpecHeatmap: a variant that writes,
\* one that reads and writes, and one that only reads.
HeatCalls ==
    AddCalls \cup
    { [node |-> BlitVramRamNode, words |-> WordsOfLen(1), origin |-> "DIRECT_DMA",
       value |-> 512, length |-> 8, pc |-> 4104] }

\* Calls of addNodeInternal explored by SpecStats: the four rectangle
\* variants with a small, a square and the full-VRAM rectangle.
StatNodes ==
    { [kind |-> k, x |-> 100, y |-> 100, w |-> d[1], h |-> d[2], sX |-> 0, sY |-> 0] :
          k \in {"FastFill", "BlitVramVram", "BlitRamVram", "BlitVramRam"},
          d \in {<<5, 3>>, <<8, 8>>, <<VRAMWidth, VRAMHeight>>} }
StatCalls ==
    { [node |-> n, words |-> WordsOfLen(1), origin |-> "DATAWRITE", value |-> 64,
       length |-> 4, pc |-> 4096] : n \in StatNodes }

\* Nodes explored by SpecGeom: the four rectangle variants at two positions,
\* with widths and heights that include the empty rectangle.
GeomNodes ==
    { [kind |-> k, x |-> p[1], y |-> p[2], w |-> w, h |-> h, sX |-> 1, sY |-> 0] :
          k \in {"FastFill", "BlitVramVram", "BlitRamVram", "BlitVramRam"},
          p \in {<<0, 0>>, <<2, 1>>}, w \in {0, 1, 3}, h \in {0, 2, 3} }

\* Endpoint coordinates explored by SpecLine, on both sides of zero.
LineCoords == -2..2

\* Stream buffers explored by SpecExport, in document pieces: one that holds
\* a single piece, one that holds two, one that holds the whole document.
StreamCaps == {1, 2, MaxList + MaxTrace + 2}
\* The device write that fails first (0: none fails).
FailAts == 0..3

\* Strings explored by SpecEscape: up to three characters out of the quote,
\* the backslash, \n, \r, \t, backspace (8), unit separator (31), 'A' and 'n'.
EscapeChars == {34, 92, 10, 13, 9, 8, 31, 65, 110}
EscapeInputs == UNION { [1..n -> EscapeChars] : n \in 0..3 }

\* GTEFetchContext values handed to recordVertexFetch (pc and address
\* identify them).
FetchContexts == { [pc |-> 32, address |-> 4096], [pc |-> 36, address |-> 4100] }

\* The members of LogEntry in declaration order: element size in bytes and
\* number of elements.
LogEntryFields ==
    << [name |-> "frame", size |-> 4, count |-> 1],
       [name |-> "pc", size |-> 4, count |-> 1],
       [name |-> "gp0_cmd", size |-> 4, count |-> 1],
       [name |-> "primitive_type", size |-> 2, count |-> 1],
       [name |-> "vertex_count", size |-> 2, count |-> 1],
       [name |-> "packet_words", size |-> 4, count |-> 12],
       [name |-> "vx", size |-> 2, count |-> 4],
       [name |-> "vy", size |-> 2, count |-> 4],
       [name |-> "vz", size |-> 2, count |-> 4],
       [name |-> "sx", size |-> 2, count |-> 4],
       [name |-> "sy", size |-> 2, count |-> 4],
       [name |-> "rot", size |-> 2, count |-> 9],
       [name |-> "trx", size |-> 4, count |-> 1],
       [name |-> "try_", size |-> 4, count |-> 1],
       [name |-> "trz", size |-> 4, count |-> 1],
       [name |-> "ofx", size |-> 4, count |-> 1],
       [name |-> "ofy", size |-> 4, count |-> 1],
       [name |-> "h", size |-> 2, count |-> 1],
       [name |-> "dqa", size |-> 2, count |-> 1],
       [name |-> "dqb", size |-> 2, count |-> 1],
       [name |-> "zsf3", size |-> 2, count |-> 1],
       [name |-> "zsf4", size |-> 2, count |-> 1],
       [name |-> "clut", size |-> 2, count |-> 1],
       [name |-> "tpage", size |-> 2, count |-> 1],
       [name |-> "u", size |-> 1, count |-> 4],
       [name |-> "v", size |-> 1, count |-> 4] >>

\* #pragma pack(push, 4), and the other packings a build could name.
LogEntryPack == 4
PackValues == {1, 2, LogEntryPack, 8}

\* The size the static_assert requires.
LogEntrySize == 168

\* The smallest multiple of align that is not below offset.
RoundUp(offset, align) == ((offset + align - 1) \div align) * align

\* The alignment of a member under #pragma pack(pack).
FieldAlign(field, pack) == IF field.size < pack THEN field.size ELSE pack

\* Mutant: the structure is not padded to its alignment.
StructSize_Unpadded(end, align) == end

\* sizeof: the end of the last member, padded to the structure's alignment.
StructSize(end, align) == RoundUp(end, align)

\* Texture-unit counts below and above the minimum, and sizes of m_vertices
\* from one triangle to two triangles and a spare element.
TextureUnitCounts == {MinTextureUnits - 1, MinTextureUnits + 3}
VertexSizes == {3, 4, 6, 7}

\* Calls of addNodeInternal explored by SpecWords: word counts around the cap.
WordLens == {0, 1, c_maxLoggedWords - 1, c_maxLoggedWords, c_maxLoggedWords + 1,
             c_maxLoggedWords + 3}
LongCalls ==
    { [node |-> n, words |-> WordsOfLen(l), origin |-> "DIRECT_DMA",
       value |-> v, length |-> 4 * l, pc |-> 4096] :
          n \in {BlitVramRamNode}, l \in WordLens, v \in {7, 2000} }

VARIABLES
    m_frameCounter,     \* frame counter, incremented by the VSync listener
    m_breakOnVSync,     \* pause the system on every vsync
    m_list,             \* the log: sequence of Logged nodes, head first
    m_gteFrameLog,      \* per-frame GTE trace
    m_lastGteState,     \* held GTE snapshot (std::optional), None when empty
    m_lastGteFrame,     \* frame the GTE tracker holds
    m_vram,             \* VRAM baseline (Slice), None when no data is held
    m_enabled,          \* capture enabled
    m_hasFramebuffers,  \* heatmap resources attached
    m_programExists,    \* the heatmap textures, framebuffers and shader exist
    m_vertices,         \* vertex array of the triangle batch, indexed from 0
    m_verticesCount,    \* vertices pending in the batch
    textureUnits,       \* GL_MAX_TEXTURE_IMAGE_UNITS of the GL context
    heatmapStatus,      \* history: outcome of the last enable() or disable()
    nextId,             \* history: number of nodes issued so far
    lastCall,           \* history: the last operation and its arguments
    events,             \* history: effects of the last operation, in order
    pendingFetches,     \* vertex fetches awaiting the next committed snapshot
    fetchLogging,       \* fetch logging enabled
    gteCommitted        \* history: last snapshot recordGteState committed in
                        \* the current frame (None if none)

\* The triangle batch and the GL facts enable() depends on.
batchVars == <<m_programExists, m_vertices, m_verticesCount, textureUnits,
               heatmapStatus>>

vars == <<m_frameCounter, m_breakOnVSync, m_list, m_gteFrameLog, m_lastGteState,
          m_lastGteFrame, m_vram, m_enabled, m_hasFramebuffers, nextId, lastCall,
          events, gteCommitted, batchVars, pendingFetches, fetchLogging>>

\* The vertex-fetch tracker.
fetchVars == <<pendingFetches, fetchLogging>>

\* The logger's own fields, without the history variables.
loggerState == <<m_frameCounter, m_breakOnVSync, m_list, m_gteFrameLog,
                 m_lastGteState, m_lastGteFrame, m_vram, m_enabled,
                 m_hasFramebuffers, m_programExists, m_vertices, m_verticesCount>>

\* The logger after construction: the constructor only installs the VSync
\* listener, every field holds its default (zero, false, empty).  units is
\* the number of texture units of the GL context, size the number of
\* elements of m_vertices.
InitLogger(units, size) ==
    /\ m_frameCounter = 0
    /\ m_breakOnVSync = FALSE
    /\ m_list = <<>>
    /\ m_gteFrameLog = <<>>
    /\ m_lastGteState = None
    /\ m_lastGteFrame = 0
    /\ m_vram = None
    /\ m_enabled = FALSE
    /\ m_hasFramebuffers = FALSE
    /\ nextId = 0
    /\ gteCommitted = None
    /\ pendingFetches = <<>>
    /\ fetchLogging = FALSE
    /\ m_programExists = FALSE
    /\ m_vertices = [k \in 0..(size - 1) |-> <<0, 0>>]
    /\ m_verticesCount = 0
    /\ textureUnits = units
    /\ heatmapStatus = "never"

InitWith(units, size) ==
    /\ InitLogger(units, size)
    /\ lastCall = [op |-> "GPULogger"]
    /\ events = <<>>

\* A GL context with enough texture units and a vertex array of two
\* triangles and a spare element.
Init == InitWith(MinTextureUnits + 3, 7)

(* ---------------------------------------------------------------------- *)
(* Helpers                                                                *)
(* ---------------------------------------------------------------------- *)
\* for (i = begin; i != end && i->frame != frame; i = begin) delete &*i;
\* destroys the head for as long as the head is of another frame.
\* Mutant: an `if` in place of the loop destroys one stale entry only.
EvictStale_OnlyHead(list, frame) ==
    IF list # <<>> /\ Head(list).frame # frame THEN Tail(list) ELSE list

RECURSIVE EvictStale(_, _)
EvictStale(list, frame) ==
    IF list # <<>> /\ Head(list).frame # frame
    THEN EvictStale(Tail(list), frame)
    ELSE list

\* gotNewFrame: set when the eviction loop destroyed at least one entry.
\* Mutant: every add is taken for the first command of a new frame.
GotNewFrame_Always(list, kept) == TRUE

GotNewFrame(list, kept) == Len(kept) < Len(list)

\* m_list.push_back(node)
\* Mutant: the node is linked in at the head.
PushBack_Front(list, node) == <<node>> \o list

PushBack(list, node) == Append(list, node)

\* Mutant: the cap is compared with >=, so that a command of exactly
\* c_maxLoggedWords words is flagged as truncated.
FinalizeWords_OffByOne(words, value) ==
    LET filled == IF words = <<>> THEN <<value>> ELSE words
    IN  IF Len(filled) >= c_maxLoggedWords
        THEN [words |-> SubSeq(filled, 1, c_maxLoggedWords), wordsTruncated |-> TRUE]
        ELSE [words |-> filled, wordsTruncated |-> FALSE]

\* The words of a node after finalization, and the truncation flag.
FinalizeWords(words, value) ==
    LET filled == IF words = <<>> THEN <<value>> ELSE words
    IN  IF Len(filled) > c_maxLoggedWords
        THEN [words |-> SubSeq(filled, 1, c_maxLoggedWords), wordsTruncated |-> TRUE]
        ELSE [words |-> filled, wordsTruncated |-> FALSE]

\* Mutant: the second triangle repeats the corners of the first.
RectTris_SameHalf(x, y, w, h) ==
    << << <<x, y>>, <<x + w, y>>, <<x + w, y + h>> >>,
       << <<x + w, y + h>>, <<x + w, y>>, <<x, y>> >> >>

\* Two triangles over the rectangle (x,y)-(x+w,y+h), as the variants emit them.
RectTris(x, y, w, h) ==
    << << <<x, y>>, <<x + w, y>>, <<x + w, y + h>> >>,
       << <<x + w, y + h>>, <<x, y + h>>, <<x, y>> >> >>

\* std::abs
Abs(n) == IF n < 0 THEN -n ELSE n

\* The two add() calls at the end of addLine, with the endpoints as aligned.
LineQuad(x1, y1, x2, y2, xOffset, yOffset) ==
    << << <<x1, y1>>, <<x2, y2>>, <<x2 + xOffset, y2 + yOffset>> >>,
       << <<x2 + xOffset, y2 + yOffset>>, <<x1 + xOffset, y1 + yOffset>>, <<x1, y1>> >> >>

\* Mutant: the end point is moved in the direction of travel for either sign.
addLine_EndMoved(x1, y1, x2, y2) ==
    LET dx == x2 - x1
        dy == y2 - y1
    IN  IF dx = 0 /\ dy = 0
        THEN << << <<x1, y1>>, <<x1 + 1, y1>>, <<x1 + 1, y1 + 1>> >>,
                << <<x1 + 1, y1 + 1>>, <<x1, y1 + 1>>, <<x1, y1>> >> >>
        ELSE IF Abs(dx) > Abs(dy)
             THEN LineQuad(x1, y1, IF dx > 0 THEN x2 + 1 ELSE x2 - 1, y2, 0, 1)
             ELSE LineQuad(x1, y1, x2, IF dy > 0 THEN y2 + 1 ELSE y2 - 1, 1, 0)

\* Logged::addLine: the triangles handed to the AddTri callback.
addLine(x1, y1, x2, y2) ==
    LET dx == x2 - x1
        dy == y2 - y1
    IN  IF dx = 0 /\ dy = 0
        THEN << << <<x1, y1>>, <<x1 + 1, y1>>, <<x1 + 1, y1 + 1>> >>,
                << <<x1 + 1, y1 + 1>>, <<x1, y1 + 1>>, <<x1, y1>> >> >>
        ELSE IF Abs(dx) > Abs(dy)
             THEN IF dx > 0 THEN LineQuad(x1, y1, x2 + 1, y2, 0, 1)
                  ELSE LineQuad(x1 + 1, y1, x2, y2, 0, 1)
             ELSE IF dy > 0 THEN LineQuad(x1, y1, x2, y2 + 1, 1, 0)
                  ELSE LineQuad(x1, y1 + 1, x2, y2, 1, 0)

\* getVertices of the variants: the triangles handed to the AddTri callback.
getVertices(node, op) ==
    CASE node.kind = "FastFill" ->
            IF op = "READ" THEN <<>> ELSE RectTris(node.x, node.y, node.w, node.h)
      [] node.kind = "BlitVramVram" ->
            IF op = "READ" THEN RectTris(node.sX, node.sY, node.w, node.h)
            ELSE RectTris(node.x, node.y, node.w, node.h)
      [] node.kind = "BlitRamVram" ->
            IF op = "READ" THEN <<>> ELSE RectTris(node.x, node.y, node.w, node.h)
      [] node.kind = "BlitVramRam" ->
            IF op = "WRITE" THEN <<>> ELSE RectTris(node.x, node.y, node.w, node.h)
      [] OTHER -> <<>>

\* The triangle batch while a function runs: the vertex array, the pending
\* count, the bound draw framebuffer and the GL calls made so far.
Batch(verts, count, evs) ==
    [verts |-> verts, count |-> count, target |-> "none", evs |-> evs]

\* Element k of the vertex array as GL reads it; an index outside m_vertices
\* yields no vertex of the batch (no VRAM coordinate is negative).
VertexAt(b, k) == IF k \in DOMAIN b.verts THEN b.verts[k] ELSE <<-1, -1>>

\* The pending vertices of a batch, grouped into the triangles GL draws.
PendingTris(b) ==
    [i \in 1..(b.count \div 3) |->
        << VertexAt(b, 3 * i - 3), VertexAt(b, 3 * i - 2), VertexAt(b, 3 * i - 1) >>]

\* Mutant: the pending count is not reset after the draw.
flush_KeepsCount(b) ==
    IF b.count = 0 THEN b
    ELSE [b EXCEPT !.evs = Append(@, [e |-> "draw", target |-> b.target,
                                      count |-> b.count, tris |-> PendingTris(b)])]

\* flush(): draws the pending vertices, if any, into the bound target.
flush(b) ==
    IF b.count = 0 THEN b
    ELSE [b EXCEPT !.evs = Append(@, [e |-> "draw", target |-> b.target,
                                      count |-> b.count, tris |-> PendingTris(b)]),
                   !.count = 0]

\* addTri(v1, v2, v3).  A store at an index outside m_vertices is undefined
\* behaviour: the event records it, and the array is left as it was.
addTri(b, tri) ==
    LET size == Cardinality(DOMAIN b.verts)
        b1   == IF (b.count + 3) >= size THEN flush(b) ELSE b
        at   == b1.count
    IN  [b1 EXCEPT
            !.verts = [k \in DOMAIN @ |->
                         IF k \in at..(at + 2) THEN tri[k - at + 1] ELSE @[k]],
            !.count = at + 3,
            !.evs = Append(@, [e |-> "addTri", at |-> at, tri |-> tri,
                               inBounds |-> (at + 2) < size])]

\* getVertices with the addTri callback: every triangle goes through addTri.
RECURSIVE AddTris(_, _)
AddTris(b, tris) ==
    IF tris = <<>> THEN b ELSE AddTris(addTri(b, Head(tris)), Tail(tris))

\* framebuffer.bind(OpenGL::DrawFramebuffer)
BindTarget(b, target) == [b EXCEPT !.target = target]

\* OpenGL::clearColor() on the bound target.
ClearTarget(b) == [b EXCEPT !.evs = Append(@, [e |-> "clear", target |-> b.target])]

\* One heatmap pass: bind the target, getVertices into the batch, then flush().
HeatmapPass(b, target, node, op) ==
    flush(AddTris(BindTarget(b, target), getVertices(node, op)))

\* Mutant: the enabled flag is not consulted.
ExecuteEnabled_All(list) ==
    [i \in 1..Len(list) |-> [e |-> "execute", id |-> list[i].id]]

\* The calls replay issues to the target GPU, in order.
RECURSIVE ExecuteEnabled(_)
ExecuteEnabled(list) ==
    IF list = <<>> THEN <<>>
    ELSE (IF Head(list).enabled THEN << [e |-> "execute", id |-> Head(list).id] >>
          ELSE <<>>) \o ExecuteEnabled(Tail(list))

ReplayCalls(vram, list) ==
    (IF vram # None
     THEN << [e |-> "partialUpdateVRAM", x |-> 0, y |-> 0, w |-> VRAMWidth,
              h |-> VRAMHeight, data |-> vram] >>
     ELSE <<>>)
    \o ExecuteEnabled(list)
    \o << [e |-> "vblank"] >>

(* ---------------------------------------------------------------------- *)
(* Operations                                                             *)
(* ---------------------------------------------------------------------- *)
\* The VSync listener installed by the constructor.  The counter is explored
\* up to MaxFrame; it does not wrap within the runs explored.
VSync ==
    /\ m_frameCounter < MaxFrame
    /\ m_frameCounter' = m_frameCounter + 1
    /\ lastCall' = [op |-> "VSync"]
    /\ events' = IF m_breakOnVSync THEN << [e |-> "pause"] >> ELSE <<>>
    /\ gteCommitted' = None
    /\ UNCHANGED fetchVars
    /\ UNCHANGED <<m_breakOnVSync, m_list, m_gteFrameLog, m_lastGteState,
                   m_lastGteFrame, m_vram, m_enabled, m_hasFramebuffers, nextId>>
    /\ UNCHANGED batchVars

\* Mutant: the held snapshot is not reset.
clearFrameLog_KeepsSnapshot ==
    /\ m_list' = <<>>
    /\ m_gteFrameLog' = <<>>
    /\ m_lastGteState' = m_lastGteState
    /\ m_lastGteFrame' = m_frameCounter
    /\ lastCall' = [op |-> "clearFrameLog", again |-> lastCall.op = "clearFrameLog"]
    /\ events' = [i \in 1..Len(m_list) |-> [e |-> "destroy", id |-> m_list[i].id]]
    /\ gteCommitted' = None
    /\ UNCHANGED fetchVars
    /\ UNCHANGED <<m_frameCounter, m_breakOnVSync, m_vram, m_enabled,
                   m_hasFramebuffers, nextId>>
    /\ UNCHANGED batchVars

clearFrameLog ==
    /\ m_list' = <<>>
    /\ m_gteFrameLog' = <<>>
    /\ m_lastGteState' = None
    /\ m_lastGteFrame' = m_frameCounter
    /\ lastCall' = [op |-> "clearFrameLog", again |-> lastCall.op = "clearFrameLog"]
    /\ events' = [i \in 1..Len(m_list) |-> [e |-> "destroy", id |-> m_list[i].id]]
    /\ gteCommitted' = None
    /\ UNCHANGED fetchVars
    /\ UNCHANGED <<m_frameCounter, m_breakOnVSync, m_vram, m_enabled,
                   m_hasFramebuffers, nextId>>
    /\ UNCHANGED batchVars

\* Mutant: the frame check is missing, so the trace of the previous frame is
\* kept across the frame boundary.
recordGteState_NoFrameReset(state) ==
    /\ m_enabled => Len(m_gteFrameLog) < MaxTrace
    /\ m_lastGteFrame' = m_frameCounter
    /\ m_lastGteState' = state
    /\ m_gteFrameLog' = IF m_enabled THEN Append(m_gteFrameLog, state)
                        ELSE m_gteFrameLog
    /\ lastCall' = [op |-> "recordGteState", state |-> state]
    /\ events' = <<>>
    /\ gteCommitted' = state
    /\ UNCHANGED fetchVars
    /\ UNCHANGED <<m_frameCounter, m_breakOnVSync, m_list, m_vram, m_enabled,
                   m_hasFramebuffers, nextId>>
    /\ UNCHANGED batchVars

recordGteState(state) ==
    LET reset == m_lastGteFrame # m_frameCounter
        kept  == IF reset THEN <<>> ELSE m_gteFrameLog
    IN  /\ m_enabled => Len(kept) < MaxTrace
        /\ m_lastGteFrame' = m_frameCounter
        /\ m_lastGteState' = state
        /\ m_gteFrameLog' = IF m_enabled THEN Append(kept, state) ELSE kept
        /\ lastCall' = [op |-> "recordGteState", state |-> state]
        /\ events' = <<>>
        /\ gteCommitted' = state
        /\ UNCHANGED fetchVars
        /\ UNCHANGED <<m_frameCounter, m_breakOnVSync, m_list, m_vram, m_enabled,
                       m_hasFramebuffers, nextId>>
        /\ UNCHANGED batchVars

\* startNewFrame: the assignments to the logger's fields.  The acquired VRAM
\* snapshot is named by the frame it was taken in.
startNewFrame ==
    /\ m_vram' = [acquiredIn |-> m_frameCounter]
    /\ m_gteFrameLog' = <<>>
    /\ m_lastGteState' = None
    /\ m_lastGteFrame' = m_frameCounter

addNodeInternal(call) ==
    LET frame       == m_frameCounter
        kept        == EvictStale(m_list, frame)
        nEvicted    == Len(m_list) - Len(kept)
        gotNewFrame == GotNewFrame(m_list, kept)
        gte         == m_lastGteState'   \* read after startNewFrame, if it ran
        fw          == FinalizeWords(call.words, call.value)
        id          == nextId + 1
        node        == [id |-> id, shape |-> call.node, origin |-> call.origin,
                        length |-> call.length, sourceAddr |-> call.value,
                        words |-> fw.words, wordsTruncated |-> fw.wordsTruncated,
                        gteState |-> gte, pc |-> call.pc, frame |-> frame,
                        enabled |-> call.enabled, highlight |-> call.highlight]
        logged      == [i \in 1..nEvicted |-> [e |-> "destroy", id |-> m_list[i].id]]
                       \o (IF gotNewFrame
                           THEN << [e |-> "acquireVRAM"], [e |-> "resetGte"] >>
                           ELSE <<>>)
                       \o << [e |-> "finalize", id |-> id, gteState |-> gte],
                             [e |-> "append", id |-> id] >>
        b0          == Batch(m_vertices, m_verticesCount, logged)
        b           == IF ~m_hasFramebuffers THEN b0
                       ELSE HeatmapPass(
                                HeatmapPass(b0, "writtenHeatmap", call.node, "WRITE"),
                                "readHeatmap", call.node, "READ")
    IN  /\ nextId < MaxIssue
        /\ Len(kept) < MaxList
        /\ IF gotNewFrame THEN startNewFrame
           ELSE UNCHANGED <<m_vram, m_gteFrameLog, m_lastGteState, m_lastGteFrame>>
        /\ m_list' = PushBack(kept, node)
        /\ nextId' = id
        /\ lastCall' = [op |-> "addNodeInternal", call |-> call]
        /\ events' = b.evs
        /\ m_vertices' = b.verts
        /\ m_verticesCount' = b.count
        /\ UNCHANGED <<m_frameCounter, m_breakOnVSync, m_enabled, m_hasFramebuffers,

                       gteCommitted, fetchVars,
                       m_programExists, textureUnits, heatmapStatus>>

replay ==
    /\ lastCall' = [op |-> "replay"]
    /\ events' = ReplayCalls(m_vram, m_list)
    /\ UNCHANGED <<loggerState, nextId, gteCommitted, fetchVars>>
    /\ UNCHANGED batchVars

\* Mutant: m_hasFramebuffers is assigned before the resources are created.
enable_FlagFirst(ok) ==
    LET created == textureUnits >= MinTextureUnits /\ (m_programExists \/ ok)
    IN  /\ m_hasFramebuffers' = TRUE
        /\ m_programExists' = (m_programExists \/ created)
        /\ heatmapStatus' = IF created THEN "enabled" ELSE "failed"
        /\ lastCall' = [op |-> "enable", ok |-> ok]
        /\ events' = <<>>
        /\ UNCHANGED <<m_frameCounter, m_breakOnVSync, m_list, m_gteFrameLog,
                       m_lastGteState, m_lastGteFrame, m_vram, m_enabled, nextId,

                       gteCommitted, fetchVars,
                       m_vertices, m_verticesCount, textureUnits>>

\* enable(): ok tells whether every texture, framebuffer and shader can be
\* created when the program does not exist yet.  Every failure returns
\* before m_hasFramebuffers is assigned.
enable(ok) ==
    LET created == textureUnits >= MinTextureUnits /\ (m_programExists \/ ok)
    IN  /\ m_hasFramebuffers' = IF created THEN TRUE ELSE m_hasFramebuffers
        /\ m_programExists' = (m_programExists \/ created)
        /\ heatmapStatus' = IF created THEN "enabled" ELSE "failed"
        /\ lastCall' = [op |-> "enable", ok |-> ok]
        /\ events' = <<>>
        /\ UNCHANGED <<m_frameCounter, m_breakOnVSync, m_list, m_gteFrameLog,
                       m_lastGteState, m_lastGteFrame, m_vram, m_enabled, nextId,

                       gteCommitted, fetchVars,
                       m_vertices, m_verticesCount, textureUnits>>

disable ==
    /\ m_hasFramebuffers' = FALSE
    /\ m_vram' = None
    /\ heatmapStatus' = "disabled"
    /\ lastCall' = [op |-> "disable"]
    /\ events' = <<>>
    /\ UNCHANGED <<m_frameCounter, m_breakOnVSync, m_list, m_gteFrameLog,
                   m_lastGteState, m_lastGteFrame, m_enabled, nextId,
                   gteCommitted, fetchVars,
                   m_programExists, m_vertices, m_verticesCount, textureUnits>>

\* The debug UI writes the public capture switch.
SetEnabled(b) ==
    /\ m_enabled # b
    /\ m_enabled' = b
    /\ lastCall' = [op |-> "SetEnabled"]
    /\ events' = <<>>
    /\ UNCHANGED <<m_frameCounter, m_breakOnVSync, m_list, m_gteFrameLog,
                   m_lastGteState, m_lastGteFrame, m_vram, m_hasFramebuffers, nextId,
                   gteCommitted, fetchVars>>
    /\ UNCHANGED batchVars

\* The debug UI toggles the enabled flag of one entry of the log.
ToggleNodeEnabled(i) ==
    /\ i \in 1..Len(m_list)
    /\ m_list' = [m_list EXCEPT ![i].enabled = ~@]
    /\ lastCall' = [op |-> "ToggleNodeEnabled"]
    /\ events' = <<>>
    /\ UNCHANGED <<m_frameCounter, m_breakOnVSync, m_gteFrameLog, m_lastGteState,
                   m_lastGteFrame, m_vram, m_enabled, m_hasFramebuffers, nextId,
                   gteCommitted, fetchVars>>
    /\ UNCHANGED batchVars

\* The debug UI writes the fetch-logging switch.
SetFetchLogging(b) ==
    /\ fetchLogging' = b
    /\ lastCall' = [op |-> "SetFetchLogging", b |-> b]
    /\ events' = <<>>
    /\ UNCHANGED <<loggerState, nextId, gteCommitted, batchVars, pendingFetches>>

\* recordVertexFetch(context): nothing unless fetch logging is enabled; the
\* frame-boundary reset of recordGteState, which also drops the fetches of
\* the frame before; then the context joins the pending fetches.
recordVertexFetch(context) ==
    LET reset == m_lastGteFrame # m_frameCounter
        kept  == IF reset THEN <<>> ELSE pendingFetches
    IN  /\ fetchLogging => Len(kept) < MaxTrace
        /\ lastCall' = [op |-> "recordVertexFetch", context |-> context]
        /\ events' = <<>>
        /\ IF fetchLogging
           THEN /\ pendingFetches' = Append(kept, context)
                /\ m_lastGteFrame' = m_frameCounter
                /\ m_gteFrameLog' = IF reset THEN <<>> ELSE m_gteFrameLog
                /\ m_lastGteState' = IF reset THEN None ELSE m_lastGteState
           ELSE UNCHANGED <<pendingFetches, m_lastGteFrame, m_gteFrameLog,
                            m_lastGteState>>
        /\ UNCHANGED <<m_frameCounter, m_breakOnVSync, m_list, m_vram, m_enabled,
                       m_hasFramebuffers, nextId, gteCommitted, batchVars,
                       fetchLogging>>

\* The debug UI toggles the highlight flag of the i-th logged command.
ToggleNodeHighlight(i) ==
    /\ i \in 1..Len(m_list)
    /\ m_list' = [m_list EXCEPT ![i].highlight = ~@]
    /\ lastCall' = [op |-> "ToggleNodeHighlight", i |-> i]
    /\ events' = <<>>
    /\ UNCHANGED <<m_frameCounter, m_breakOnVSync, m_gteFrameLog, m_lastGteState,
                   m_lastGteFrame, m_vram, m_enabled, m_hasFramebuffers, nextId,
                   gteCommitted, fetchVars>>
    /\ UNCHANGED batchVars

\* The triangles of the highlight-flagged entries of the log, in list order.
RECURSIVE HighlightedTris(_, _)
HighlightedTris(list, op) ==
    IF list = <<>> THEN <<>>
    ELSE (IF Head(list).highlight THEN getVertices(Head(list).shape, op) ELSE <<>>)
         \o HighlightedTris(Tail(list), op)

\* One pass of highlight(): bind and clear the target, the node's triangles
\* if a node is given, the flagged entries unless only, then flush().
HighlightPass(b, target, i, only, op) ==
    LET cleared == ClearTarget(BindTarget(b, target))
        own     == IF i = 0 THEN cleared
                   ELSE AddTris(cleared, getVertices(m_list[i].shape, op))
        all     == IF only THEN own ELSE AddTris(own, HighlightedTris(m_list, op))
    IN  flush(all)

\* highlight(node, only): i is the position of node in the log, 0 for nullptr.
highlight(i, only) ==
    LET b0 == Batch(m_vertices, m_verticesCount, <<>>)
        b  == IF ~m_hasFramebuffers THEN b0
              ELSE HighlightPass(
                       HighlightPass(b0, "writtenHighlight", i, only, "WRITE"),
                       "readHighlight", i, only, "READ")
    IN  /\ i \in 0..Len(m_list)
        /\ lastCall' = [op |-> "highlight", i |-> i, only |-> only]
        /\ events' = b.evs
        /\ m_vertices' = b.verts
        /\ m_verticesCount' = b.count
        /\ UNCHANGED <<m_frameCounter, m_breakOnVSync, m_list, m_gteFrameLog,
                       m_lastGteState, m_lastGteFrame, m_vram, m_enabled,
                       m_hasFramebuffers, nextId,
                       gteCommitted, fetchVars, m_programExists,
                       textureUnits, heatmapStatus>>

\* escapeJsonString on a string given as its sequence of character codes:
\* quote (34), backslash (92), \n (10), \r (13) and \t (9) become a backslash
\* and a letter, every other character is copied.
RECURSIVE escapeJsonString(_)
escapeJsonString(value) ==
    IF value = <<>> THEN <<>>
    ELSE LET c == Head(value)
         IN  (CASE c = 34 -> <<92, 34>>
                [] c = 92 -> <<92, 92>>
                [] c = 10 -> <<92, 110>>
                [] c = 13 -> <<92, 114>>
                [] c = 9  -> <<92, 116>>
                [] OTHER  -> <<c>>)
             \o escapeJsonString(Tail(value))

\* GPU::GPUStats after construction.
ZeroStats ==
    [triangles |-> 0, texturedTriangles |-> 0, rectangles |-> 0, sprites |-> 0,
     pixelWrites |-> 0, pixelReads |-> 0, texelReads |-> 0]

\* Mutant: a VRAM-to-RAM blit is counted as written pixels.
cumulateStats_ReadAsWrite(node, stats) ==
    IF node.kind \in {"FastFill", "BlitRamVram", "BlitVramRam"}
    THEN [stats EXCEPT !.pixelWrites = @ + node.h * node.w]
    ELSE IF node.kind = "BlitVramVram"
    THEN [stats EXCEPT !.pixelWrites = @ + node.h * node.w,
                       !.pixelReads = @ + node.h * node.w]
    ELSE stats

\* cumulateStats of the four variants.
cumulateStats(node, stats) ==
    CASE node.kind = "FastFill" ->
            [stats EXCEPT !.pixelWrites = @ + node.h * node.w]
      [] node.kind = "BlitVramVram" ->
            LET s == node.h * node.w
            IN  [stats EXCEPT !.pixelWrites = @ + s, !.pixelReads = @ + s]
      [] node.kind = "BlitRamVram" ->
            [stats EXCEPT !.pixelWrites = @ + node.h * node.w]
      [] node.kind = "BlitVramRam" ->
            [stats EXCEPT !.pixelReads = @ + node.h * node.w]
      [] OTHER -> stats

\* The std::ofstream of saveFrameLog.  cap is the number of document pieces
\* the stream buffer holds; the device rejects its failAt-th write and every
\* later one (failAt = 0: it accepts all).  evs records the device writes.
OpenStream(cap, failAt) ==
    [good |-> TRUE, buf |-> <<>>, cap |-> cap, failAt |-> failAt, writes |-> 0,
     evs |-> << [e |-> "open", ok |-> TRUE] >>]

\* The stream buffer is handed to the device (overflow, or close).
DeviceWrite(st) ==
    LET n  == st.writes + 1
        ok == st.failAt = 0 \/ n < st.failAt
    IN  [st EXCEPT !.writes = n,
                   !.good = @ /\ ok,
                   !.buf = IF ok THEN <<>> ELSE @,
                   !.evs = Append(@, [e |-> "write", pieces |-> st.buf, ok |-> ok])]

\* output << piece: nothing is inserted once the stream has failed; a full
\* buffer is written out before the piece is stored.
Put(st, piece) ==
    IF ~st.good THEN st
    ELSE LET st1 == IF Len(st.buf) >= st.cap THEN DeviceWrite(st) ELSE st
         IN  IF st1.good THEN [st1 EXCEPT !.buf = Append(@, piece)] ELSE st1

\* The loop over m_gteFrameLog.
RECURSIVE PutGte(_, _)
PutGte(st, log) ==
    IF log = <<>> THEN st
    ELSE PutGte(Put(st, [piece |-> "gte", state |-> Head(log)]), Tail(log))

\* The loop over m_list: cumulateStats, then the command's JSON object.
RECURSIVE PutCommands(_, _)
PutCommands(acc, list) ==
    IF list = <<>> THEN acc
    ELSE LET logged == Head(list)
             stats  == cumulateStats(logged.shape, acc.stats)
             noted  == [acc.st EXCEPT !.evs = Append(@, [e |-> "cumulateStats",
                                          id |-> logged.id, stats |-> stats])]
         IN  PutCommands([st |-> Put(noted, [piece |-> "command", id |-> logged.id]),
                          stats |-> stats],
                         Tail(list))

\* ~ofstream: close() writes out what the buffer still holds.
CloseStream(st) ==
    LET st1 == IF st.buf # <<>> THEN DeviceWrite(st) ELSE st
    IN  [st1 EXCEPT !.evs = Append(@, [e |-> "close"])]

\* saveFrameLog(path): openOk tells whether the file could be opened.  The
\* return value is output.good() taken before the stream is destroyed.
saveFrameLog(openOk, cap, failAt) ==
    LET opened == OpenStream(cap, failAt)
        head   == Put(opened, [piece |-> "frame", frame |-> m_frameCounter])
        gte    == PutGte(head, m_gteFrameLog)
        cmds   == PutCommands([st |-> gte, stats |-> ZeroStats], m_list)
        tail   == Put(cmds.st, [piece |-> "stats", stats |-> cmds.stats])
        ret    == [tail EXCEPT !.evs = Append(@, [e |-> "return", value |-> tail.good])]
    IN  /\ lastCall' = [op |-> "saveFrameLog", openOk |-> openOk, cap |-> cap,
                        failAt |-> failAt]
        /\ events' = IF ~openOk
                     THEN << [e |-> "open", ok |-> FALSE],
                             [e |-> "return", value |-> FALSE] >>
                     ELSE CloseStream(ret).evs
        /\ UNCHANGED <<loggerState, nextId,
                       gteCommitted, fetchVars, batchVars>>

\* Nodes arrive with the flags their constructor gave them.
WithFlags(calls) ==
    { [node |-> c.node, words |-> c.words, origin |-> c.origin, value |-> c.value,
       length |-> c.length, pc |-> c.pc, enabled |-> TRUE, highlight |-> FALSE] :
          c \in calls }

\* The debug UI writes the break-on-vsync switch.
SetBreakOnVSync(b) ==
    /\ m_breakOnVSync # b
    /\ m_breakOnVSync' = b
    /\ lastCall' = [op |-> "SetBreakOnVSync"]
    /\ events' = <<>>
    /\ UNCHANGED <<m_frameCounter, m_list, m_gteFrameLog, m_lastGteState,
                   m_lastGteFrame, m_vram, m_enabled, m_hasFramebuffers, nextId,
                   gteCommitted, fetchVars>>
    /\ UNCHANGED batchVars

(* ---------------------------------------------------------------------- *)
(* Specifications                                                         *)
(*                                                                        *)
(* The logger's operations fall into two groups that share the log, the   *)
(* frame counter and the VRAM baseline but otherwise touch disjoint       *)
(* fields: the capture path (vsync, add, recordGteState, clearFrameLog,   *)
(* the capture switch) and the replay path (replay, the heatmap resources,*)
(* the per-entry flags).  Spec explores the first group, SpecReplay the   *)
(* second together with everything that changes the log or the baseline.  *)
(* ---------------------------------------------------------------------- *)
Next ==
    \/ VSync
    \/ clearFrameLog
    \/ \E s \in GTEStates : recordGteState(s)
    \/ \E c \in WithFlags(AddCalls) : addNodeInternal(c)
    \/ \E b \in BOOLEAN : SetEnabled(b)

Spec == Init /\ [][Next]_vars

NextReplay ==
    \/ VSync
    \/ clearFrameLog
    \/ \E c \in WithFlags(AddCalls) : addNodeInternal(c)
    \/ replay
    \/ \E ok \in BOOLEAN : enable(ok)
    \/ disable
    \/ \E i \in 1..MaxList : ToggleNodeEnabled(i)
    \/ \E b \in BOOLEAN : SetBreakOnVSync(b)

SpecReplay == Init /\ [][NextReplay]_vars

\* The same logger driven with word sequences around the 1024-word cap.
NextWords ==
    \/ VSync
    \/ clearFrameLog
    \/ \E c \in WithFlags(LongCalls) : addNodeInternal(c)

SpecWords == Init /\ [][NextWords]_vars

\* The heatmap and highlight passes within one frame, over every GL context
\* and batch size.
InitHeatmap ==
    \E units \in TextureUnitCounts, size \in VertexSizes : InitWith(units, size)

NextHeatmap ==
    \/ \E c \in WithFlags(HeatCalls) : addNodeInternal(c)
    \/ \E ok \in BOOLEAN : enable(ok)
    \/ disable
    \/ \E i \in 1..MaxList : ToggleNodeHighlight(i)
    \/ \E i \in 0..MaxList, only \in BOOLEAN : highlight(i, only)

SpecHeatmap == InitHeatmap /\ [][NextHeatmap]_vars

\* getVertices as a function of the variant, its rectangles and the pixel
\* operation: lastCall holds the node and the operation, events the triangles
\* handed to the callback.
InitGeom ==
    /\ InitLogger(MinTextureUnits + 3, 7)
    /\ \E n \in GeomNodes : lastCall = [op |-> "Logged", node |-> n]
    /\ events = <<>>

GetVertices(op) ==
    /\ lastCall' = [op |-> "getVertices", node |-> lastCall.node, pixelOp |-> op]
    /\ events' = [i \in 1..Len(getVertices(lastCall.node, op)) |->
                     [e |-> "tri", tri |-> getVertices(lastCall.node, op)[i]]]
    /\ UNCHANGED <<loggerState, nextId,
                   gteCommitted, fetchVars, batchVars>>

NextGeom == \E op \in {"READ", "WRITE"} : GetVertices(op)

SpecGeom == InitGeom /\ [][NextGeom]_vars

\* addLine as a function of the two endpoints: lastCall holds the endpoints,
\* events the triangles handed to the callback.
InitLine ==
    /\ InitLogger(MinTextureUnits + 3, 7)
    /\ \E x1, y1, x2, y2 \in LineCoords :
          lastCall = [op |-> "line", x1 |-> x1, y1 |-> y1, x2 |-> x2, y2 |-> y2]
    /\ events = <<>>

AddLine ==
    LET tris == addLine(lastCall.x1, lastCall.y1, lastCall.x2, lastCall.y2)
    IN  /\ lastCall.op = "line"
        /\ lastCall' = [lastCall EXCEPT !.op = "addLine"]
        /\ events' = [i \in 1..Len(tris) |-> [e |-> "tri", tri |-> tris[i]]]
        /\ UNCHANGED <<loggerState, nextId,
                       gteCommitted, fetchVars, batchVars>>

NextLine == AddLine

SpecLine == InitLine /\ [][NextLine]_vars

\* The export to a file that may not open and a device that may reject
\* writes.
NextExport ==
    \/ \E c \in WithFlags(AddCalls) : addNodeInternal(c)
    \/ \E b \in BOOLEAN : SetEnabled(b)
    \/ \E st \in GTEStates : recordGteState(st)
    \/ \E openOk \in BOOLEAN, cap \in StreamCaps, failAt \in FailAts :
          saveFrameLog(openOk, cap, failAt)

SpecExport == Init /\ [][NextExport]_vars

\* escapeJsonString as a function of its argument: lastCall holds the
\* argument, events the characters of the result.
InitEscape ==
    /\ InitLogger(MinTextureUnits + 3, 7)
    /\ \E v \in EscapeInputs : lastCall = [op |-> "string", value |-> v]
    /\ events = <<>>

EscapeJsonString ==
    LET escaped == escapeJsonString(lastCall.value)
    IN  /\ lastCall.op = "string"
        /\ lastCall' = [lastCall EXCEPT !.op = "escapeJsonString"]
        /\ events' = [i \in 1..Len(escaped) |-> [e |-> "char", c |-> escaped[i]]]
        /\ UNCHANGED <<loggerState, nextId,
                       gteCommitted, fetchVars, batchVars>>

NextEscape == EscapeJsonString

SpecEscape == InitEscape /\ [][NextEscape]_vars

\* The GTE tracker with vertex fetches arriving between snapshots.
NextFetch ==
    \/ VSync
    \/ clearFrameLog
    \/ \E st \in GTEStates : recordGteState(st)
    \/ \E c \in FetchContexts : recordVertexFetch(c)
    \/ \E b \in BOOLEAN : SetFetchLogging(b)
    \/ \E b \in BOOLEAN : SetEnabled(b)

SpecFetch == Init /\ [][NextFetch]_vars

\* The layout of LogEntry, member by member: lastCall holds the packing, the
\* number of members placed, the end of the last one and the structure's
\* alignment so far; events holds the members with their offsets.
InitLayout ==
    /\ InitLogger(MinTextureUnits + 3, 7)
    /\ \E pack \in PackValues :
          lastCall = [op |-> "LogEntry", pack |-> pack, placed |-> 0, end |-> 0,
                      align |-> 1, size |-> 0]
    /\ events = <<>>

PlaceField ==
    LET field  == LogEntryFields[lastCall.placed + 1]
        align  == FieldAlign(field, lastCall.pack)
        offset == RoundUp(lastCall.end, align)
    IN  /\ lastCall.op = "LogEntry"
        /\ lastCall.placed < Len(LogEntryFields)
        /\ lastCall' = [lastCall EXCEPT
                            !.placed = @ + 1,
                            !.end = offset + field.size * field.count,
                            !.align = IF align > @ THEN align ELSE @]
        /\ events' = Append(events, [e |-> "field", name |-> field.name,
                                     offset |-> offset,
                                     bytes |-> field.size * field.count])
        /\ UNCHANGED <<loggerState, nextId, gteCommitted, fetchVars, batchVars>>

LogEntrySizeBytes ==
    /\ lastCall.op = "LogEntry"
    /\ lastCall.placed = Len(LogEntryFields)
    /\ lastCall' = [lastCall EXCEPT !.op = "LogEntrySizeBytes",
                                    !.size = StructSize(lastCall.end, lastCall.align)]
    /\ UNCHANGED <<loggerState, nextId, gteCommitted, fetchVars, batchVars, events>>

NextLayout ==
    \/ PlaceField
    \/ LogEntrySizeBytes

SpecLayout == InitLayout /\ [][NextLayout]_vars

\* The statistics block of the export, for logs of the rectangle variants.
NextStats ==
    \/ \E c \in WithFlags(StatCalls) : addNodeInternal(c)
    \/ clearFrameLog
    \/ \E openOk \in BOOLEAN : saveFrameLog(openOk, MaxList + 4, 0)

SpecStats == Init /\ [][NextStats]_vars

(* ---------------------------------------------------------------------- *)
(* Properties                                                             *)
(* ---------------------------------------------------------------------- *)
Last(seq) == seq[Len(seq)]
Ids(list) == [i \in 1..Len(list) |-> list[i].id]
Min(a, b) == IF a < b THEN a ELSE b

\* A step of addNodeInternal: the only operation that issues a node.
AddStep == nextId' = nextId + 1

\* C1: immediately after addNodeInternal returns, every entry of the log has
\* the frame number of the frame counter.
C1_AfterAddAllCurrent ==
    lastCall.op = "addNodeInternal" =>
        \A i \in 1..Len(m_list) : m_list[i].frame = m_frameCounter

\* C1 witness: an add in a later frame that found the log full of stale
\* entries and destroyed them.
C1_Witness ==
    /\ lastCall.op = "addNodeInternal"
    /\ m_frameCounter > 0
    /\ Len(events) > MaxList
    /\ \A i \in 1..MaxList : events[i].e = "destroy"
    /\ Len(m_list) = 1

\* C2: in every reachable state all entries of the log carry one and the same
\* frame number.
C2_SingleFrame ==
    \A i, j \in 1..Len(m_list) : m_list[i].frame = m_list[j].frame

\* C2 witness: between a vsync and the next add the log holds several entries
\* of the frame that has ended.
C2_Witness ==
    /\ lastCall.op = "VSync"
    /\ Len(m_list) >= 2
    /\ m_list[1].frame # m_frameCounter

\* The entries of the log that are of another frame than the frame counter.
StaleIds(list, frame) ==
    [i \in 1..Len(SelectSeq(list, LAMBDA n : n.frame # frame)) |->
        SelectSeq(list, LAMBDA n : n.frame # frame)[i].id]

CountOf(evs, kind) == Cardinality({i \in 1..Len(evs) : evs[i].e = kind})

\* C3: an add that finds N >= 1 stale entries destroys all N, then re-acquires
\* the VRAM baseline exactly once and resets the GTE trace and the held
\* snapshot, and only then finalizes and appends the new command; an add that
\* evicts nothing acquires no baseline and leaves the GTE state alone.
C3_EvictThenAcquireThenAppend ==
    [][AddStep =>
        LET stale == StaleIds(m_list, m_frameCounter)
            N     == Len(stale)
        IN  IF N >= 1
            THEN /\ Len(events') >= N + 4
                 /\ \A i \in 1..N : events'[i] = [e |-> "destroy", id |-> stale[i]]
                 /\ events'[N + 1].e = "acquireVRAM"
                 /\ events'[N + 2].e = "resetGte"
                 /\ events'[N + 3].e = "finalize"
                 /\ events'[N + 3].gteState = None
                 /\ events'[N + 4] = [e |-> "append", id |-> nextId']
                 /\ CountOf(events', "acquireVRAM") = 1
                 /\ CountOf(events', "destroy") = N
                 /\ m_vram' = [acquiredIn |-> m_frameCounter]
                 /\ m_gteFrameLog' = <<>>
                 /\ m_lastGteState' = None
                 /\ Len(m_list') = 1
            ELSE /\ CountOf(events', "acquireVRAM") = 0
                 /\ CountOf(events', "resetGte") = 0
                 /\ CountOf(events', "destroy") = 0
                 /\ UNCHANGED <<m_vram, m_gteFrameLog, m_lastGteState, m_lastGteFrame>>
    ]_vars

\* C3 witness: an add has destroyed a full log of stale entries, acquired the
\* baseline and appended its node.
C3_Witness ==
    /\ lastCall.op = "addNodeInternal"
    /\ Len(events) = MaxList + 4
    /\ events[MaxList].e = "destroy"
    /\ events[MaxList + 1].e = "acquireVRAM"
    /\ events[MaxList + 4].e = "append"
    /\ m_vram = [acquiredIn |-> m_frameCounter]

\* C4: whenever the log is non-empty, the baseline the logger holds was
\* acquired during the frame of the log's entries.
C4_BaselineOfLoggedFrame ==
    m_list # <<>> =>
        /\ m_vram # None
        /\ m_vram.acquiredIn = m_list[1].frame

\* C5: the snapshot add attaches to a command is the most recent snapshot
\* recordGteState committed in the command's own frame before the add (a
\* clearFrameLog restarts the frame's tracking), and is empty exactly when
\* there is none.
C5_AttachedIsLatestOfFrame ==
    lastCall.op = "addNodeInternal" => Last(m_list).gteState = gteCommitted

\* C6: after add finalizes a command its words are non-empty (a command that
\* arrived without words holds the trigger value alone), are the first
\* c_maxLoggedWords words of the original in order, and wordsTruncated tells
\* exactly whether the command arrived with more words than the cap.
C6_WordsFinalized ==
    lastCall.op = "addNodeInternal" =>
        LET orig == lastCall.call.words
            node == Last(m_list)
        IN  /\ node.words # <<>>
            /\ Len(node.words) <= c_maxLoggedWords
            /\ orig = <<>> => node.words = <<lastCall.call.value>>
            /\ orig # <<>> =>
                  /\ Len(node.words) = Min(Len(orig), c_maxLoggedWords)
                  /\ \A i \in 1..Len(node.words) : node.words[i] = orig[i]
            /\ node.wordsTruncated <=> Len(orig) > c_maxLoggedWords

\* C6 witness: a command that arrived with more words than the cap has been
\* finalized, cut to the cap and flagged.
C6_Witness ==
    /\ lastCall.op = "addNodeInternal"
    /\ Len(lastCall.call.words) > c_maxLoggedWords
    /\ Len(Last(m_list).words) = c_maxLoggedWords
    /\ Last(m_list).wordsTruncated

\* C7: the log is kept in issue order: an add appends exactly one entry at the
\* tail and removes entries from the head only, no other operation adds or
\* reorders entries, and the position of two entries in the log is the order
\* in which add was called for them.
C7_IssueOrder ==
    [][ /\ AddStep =>
            \E k \in 0..Len(m_list) :
                /\ Len(m_list') = Len(m_list) - k + 1
                /\ \A i \in 1..(Len(m_list) - k) : m_list'[i] = m_list[k + i]
                /\ Last(m_list').id = nextId'
        /\ ~AddStep => (Ids(m_list') = Ids(m_list) \/ m_list' = <<>>)
        /\ \A i, j \in 1..Len(m_list') : i < j => m_list'[i].id < m_list'[j].id
    ]_vars

\* C7 witness: the log holds a full run of entries, the last of them appended
\* by the add that has just returned.
C7_Witness ==
    /\ lastCall.op = "addNodeInternal"
    /\ Len(m_list) = MaxList
    /\ Last(m_list).id = nextId
    /\ m_list[1].id = nextId - MaxList + 1

\* The entries of the log whose enabled flag is set, in log order.
EnabledIds(list) ==
    LET en == SelectSeq(list, LAMBDA n : n.enabled)
    IN  [i \in 1..Len(en) |-> en[i].id]

\* C8: replay issues one full 1024x512 VRAM update at (0,0) if and only if a
\* baseline is held, then execute for exactly the enabled entries in log
\* order, then exactly one vblank, also when the log is empty.
C8_ReplaySequence ==
    lastCall.op = "replay" =>
        LET held == m_vram # None
            off  == IF held THEN 1 ELSE 0
            ids  == EnabledIds(m_list)
        IN  /\ Len(events) = off + Len(ids) + 1
            /\ held => events[1] = [e |-> "partialUpdateVRAM", x |-> 0, y |-> 0,
                                    w |-> 1024, h |-> 512, data |-> m_vram]
            /\ CountOf(events, "partialUpdateVRAM") = off
            /\ \A i \in 1..Len(ids) :
                   events[off + i] = [e |-> "execute", id |-> ids[i]]
            /\ events[Len(events)] = [e |-> "vblank"]
            /\ CountOf(events, "vblank") = 1

\* C8 witness: a replay with a baseline held and a log that holds an enabled
\* and a disabled entry.
C8_Witness ==
    /\ lastCall.op = "replay"
    /\ m_vram # None
    /\ Len(m_list) >= 2
    /\ \E i, j \in 1..Len(m_list) : m_list[i].enabled /\ ~m_list[j].enabled
    /\ Len(events) = Len(m_list) + 1

\* C9: after clearFrameLog the log and the GTE trace are empty and no snapshot
\* is held, and a second call made immediately after the first leaves every
\* field of the logger as the first left it.
C9_ClearIdempotent ==
    [][lastCall'.op = "clearFrameLog" =>
          /\ m_list' = <<>>
          /\ m_gteFrameLog' = <<>>
          /\ m_lastGteState' = None
          /\ lastCall'.again => loggerState' = loggerState
    ]_vars

\* C9 witness: clearFrameLog has been called twice in a row on a logger that
\* had been in use.
C9_Witness ==
    /\ lastCall.op = "clearFrameLog"
    /\ lastCall.again
    /\ nextId > 0
    /\ m_frameCounter > 0
    /\ m_list = <<>>

\* C10: recordGteState(s) makes s the held snapshot; the trace afterwards is
\* the trace before (the empty trace if the tracker's frame was not the frame
\* counter) followed by s when capture is enabled and by nothing when it is
\* not; the tracker's frame afterwards is the frame counter.
C10_RecordGteState ==
    [][lastCall'.op = "recordGteState" /\ vars' # vars =>
          LET st   == lastCall'.state
              base == IF m_lastGteFrame = m_frameCounter THEN m_gteFrameLog ELSE <<>>
          IN  /\ m_lastGteState' = st
              /\ m_gteFrameLog' = base \o (IF m_enabled THEN <<st>> ELSE <<>>)
              /\ m_lastGteFrame' = m_frameCounter
              /\ m_frameCounter' = m_frameCounter
    ]_vars

\* C10 witness: with capture enabled, a snapshot has been recorded in a new
\* frame while the tracker still held the trace of the frame before.
C10_Witness ==
    /\ lastCall.op = "recordGteState"
    /\ m_enabled
    /\ m_frameCounter > 0
    /\ m_gteFrameLog = <<lastCall.state>>
    /\ gteCommitted = lastCall.state
    /\ m_lastGteFrame = m_frameCounter

\* The triangles of the events of one kind on one target, concatenated in
\* event order ("addTri" events carry one triangle, "draw" events a sequence).
RECURSIVE TrisOf(_, _, _)
TrisOf(evs, kind, targets) ==
    IF evs = <<>> THEN <<>>
    ELSE LET ev == Head(evs)
         IN  (CASE ev.e = kind /\ kind = "draw" /\ ev.target \in targets -> ev.tris
                [] ev.e = kind /\ kind = "addTri" -> <<ev.tri>>
                [] OTHER -> <<>>)
             \o TrisOf(Tail(evs), kind, targets)

HeatmapTargets == {"writtenHeatmap", "readHeatmap"}
AllTargets == HeatmapTargets \cup {"writtenHighlight", "readHighlight"}

IsPrefix(s, t) == Len(s) <= Len(t) /\ SubSeq(t, 1, Len(s)) = s

\* C11: what add leaves on the log does not depend on the heatmap.  When the
\* last enable() failed, or disable() ran, or enable() never ran, add draws
\* no triangle and still appends the node with the call's fields; when the
\* last enable() succeeded, add draws the command's WRITE triangles into the
\* written heatmap, then its READ triangles into the read heatmap, and leaves
\* no vertex pending.
C11_HeatmapOptional ==
    [][AddStep =>
          LET call == lastCall'.call
              node == Last(m_list')
              fw   == FinalizeWords(call.words, call.value)
          IN  /\ Len(m_list') = Len(EvictStale(m_list, m_frameCounter)) + 1
              /\ node.shape = call.node
              /\ node.origin = call.origin
              /\ node.length = call.length
              /\ node.sourceAddr = call.value
              /\ node.pc = call.pc
              /\ node.frame = m_frameCounter
              /\ node.words = fw.words
              /\ node.wordsTruncated = fw.wordsTruncated
              /\ CountOf(events', "append") = 1
              /\ m_verticesCount' = 0
              /\ IF heatmapStatus = "enabled"
                 THEN /\ TrisOf(events', "draw", {"writtenHeatmap"})
                            = getVertices(call.node, "WRITE")
                      /\ TrisOf(events', "draw", {"readHeatmap"})
                            = getVertices(call.node, "READ")
                      /\ TrisOf(events', "draw", AllTargets \ HeatmapTargets) = <<>>
                      /\ \A i, j \in 1..Len(events') :
                            /\ events'[i].e = "draw"
                            /\ events'[j].e = "draw"
                            /\ events'[i].target = "readHeatmap"
                            /\ events'[j].target = "writtenHeatmap"
                            => j < i
                      /\ \A i, j \in 1..Len(events') :
                            events'[i].e = "append" /\ events'[j].e = "draw" => i < j
                 ELSE /\ CountOf(events', "draw") = 0
                      /\ CountOf(events', "addTri") = 0
    ]_vars

\* C11 witness: a command has been added after disable() detached resources
\* that an earlier enable() had created, and nothing was drawn for it.
C11_Witness ==
    /\ lastCall.op = "addNodeInternal"
    /\ heatmapStatus = "disabled"
    /\ m_programExists
    /\ ~m_hasFramebuffers
    /\ Len(m_list) = MaxList
    /\ CountOf(events, "draw") = 0

\* C20: the pending vertex count is a multiple of three and never exceeds
\* the size of m_vertices, no addTri stores outside m_vertices, every
\* triangle given to addTri is drawn exactly once and in the order given,
\* and no vertex is pending when add or highlight returns.
C20_BatchWithinCapacity ==
    LET size == Cardinality(DOMAIN m_vertices)
    IN  /\ m_verticesCount = 0
        /\ \A i \in 1..Len(events) :
              events[i].e = "addTri" =>
                  /\ events[i].inBounds
                  /\ events[i].at % 3 = 0
                  /\ events[i].at + 3 <= size
        /\ \A i \in 1..Len(events) :
              events[i].e = "draw" =>
                  /\ events[i].count % 3 = 0
                  /\ events[i].count <= size
                  /\ 3 * Len(events[i].tris) = events[i].count
        /\ \A n \in 0..Len(events) :
              IsPrefix(TrisOf(SubSeq(events, 1, n), "draw", AllTargets),
                       TrisOf(SubSeq(events, 1, n), "addTri", AllTargets))
        /\ TrisOf(events, "draw", AllTargets) = TrisOf(events, "addTri", AllTargets)

\* C20 witness: highlight() has emitted more triangles than m_vertices holds,
\* so that addTri flushed in the middle of a pass.
C20_Witness ==
    /\ lastCall.op = "highlight"
    /\ Cardinality(DOMAIN m_vertices) = 7
    /\ CountOf(events, "draw") >= 3
    /\ CountOf(events, "addTri") >= 6

\* The sum of w*h over the entries of the log whose variant is in kinds.
RECURSIVE PixelSum(_, _)
PixelSum(list, kinds) ==
    IF list = <<>> THEN 0
    ELSE (IF Head(list).shape.kind \in kinds
          THEN Head(list).shape.w * Head(list).shape.h ELSE 0)
         + PixelSum(Tail(list), kinds)

\* The accumulator values of the last export, in order, starting from zero.
StatsTrail ==
    <<ZeroStats>> \o
    [i \in 1..CountOf(events, "cumulateStats") |->
        (SelectSeq(events, LAMBDA ev : ev.e = "cumulateStats")[i]).stats]

\* C12: cumulateStats adds w*h to pixelWrites only for a FastFill and a
\* RAM-to-VRAM blit, to pixelReads and pixelWrites for a VRAM-to-VRAM blit,
\* to pixelReads only for a VRAM-to-RAM blit, and leaves every other counter
\* as it was; the totals of an export are the per-class sums of w*h.
C12_PixelStats ==
    lastCall.op = "saveFrameLog" /\ lastCall.openOk =>
        LET trail == StatsTrail
            final == Last(trail)
        IN  /\ Len(trail) = Len(m_list) + 1
            /\ \A i \in 1..Len(m_list) :
                  LET n      == m_list[i].shape
                      before == trail[i]
                      after  == trail[i + 1]
                      s      == n.w * n.h
                      dw     == after.pixelWrites - before.pixelWrites
                      dr     == after.pixelReads - before.pixelReads
                  IN  /\ n.kind \in {"FastFill", "BlitRamVram"} => dw = s /\ dr = 0
                      /\ n.kind = "BlitVramVram" => dw = s /\ dr = s
                      /\ n.kind = "BlitVramRam" => dw = 0 /\ dr = s
                      /\ \A f \in DOMAIN after \ {"pixelWrites", "pixelReads"} :
                            after[f] = before[f]
            /\ final.pixelWrites
                  = PixelSum(m_list, {"FastFill", "BlitRamVram", "BlitVramVram"})
            /\ final.pixelReads = PixelSum(m_list, {"BlitVramVram", "BlitVramRam"})

\* C12 witness: a log of a VRAM-to-RAM blit of the full VRAM and a
\* VRAM-to-VRAM blit of 8x8 has been exported.
C12_Witness ==
    /\ lastCall.op = "saveFrameLog"
    /\ lastCall.openOk
    /\ Len(m_list) = 2
    /\ m_list[1].shape.kind = "BlitVramRam"
    /\ m_list[1].shape.w = VRAMWidth
    /\ m_list[2].shape.kind = "BlitVramVram"
    /\ m_list[2].shape.w = 8
    /\ Last(StatsTrail).pixelReads = VRAMWidth * VRAMHeight + 64
    /\ Last(StatsTrail).pixelWrites = 64

\* Plane geometry on integer points.  Cross(a, b, p) is twice the signed
\* area of the triangle a, b, p.
Cross(a, b, p) == (b[1] - a[1]) * (p[2] - a[2]) - (b[2] - a[2]) * (p[1] - a[1])
Area2(t) == Abs(Cross(t[1], t[2], t[3]))
Twice(t) == << <<2 * t[1][1], 2 * t[1][2]>>, <<2 * t[2][1], 2 * t[2][2]>>,
               <<2 * t[3][1], 2 * t[3][2]>> >>

\* p lies in the closed triangle t (of non-zero area).
InTri(t, p) ==
    LET c1 == Cross(t[1], t[2], p)
        c2 == Cross(t[2], t[3], p)
        c3 == Cross(t[3], t[1], p)
    IN  /\ Area2(t) > 0
        /\ \/ (c1 >= 0 /\ c2 >= 0 /\ c3 >= 0)
           \/ (c1 <= 0 /\ c2 <= 0 /\ c3 <= 0)

\* The points with half-integer steps (in doubled coordinates) around the
\* rectangles of GeomNodes.
GeomGrid == {<<px, py>> : px \in -1..13, py \in -1..11}

\* C13: getVertices emits nothing for WRITE of a VRAM-to-RAM blit and for
\* READ of a FastFill or a RAM-to-VRAM blit; otherwise it emits exactly two
\* triangles whose union is the destination rectangle (WRITE) or the source
\* rectangle (READ), which share only the diagonal, and whose areas sum to
\* w*h, the pixel count cumulateStats reports for that class.
C13_TwoTrianglesCoverRect ==
    lastCall.op = "getVertices" =>
        LET n     == lastCall.node
            op    == lastCall.pixelOp
            tris  == [i \in 1..Len(events) |-> events[i].tri]
            stats == cumulateStats(n, ZeroStats)
            count == IF op = "WRITE" THEN stats.pixelWrites ELSE stats.pixelReads
            rx    == IF op = "READ" /\ n.kind = "BlitVramVram" THEN n.sX ELSE n.x
            ry    == IF op = "READ" /\ n.kind = "BlitVramVram" THEN n.sY ELSE n.y
            InRect(p) == /\ n.w > 0 /\ n.h > 0
                         /\ 2 * rx <= p[1] /\ p[1] <= 2 * (rx + n.w)
                         /\ 2 * ry <= p[2] /\ p[2] <= 2 * (ry + n.h)
        IN  IF \/ (op = "WRITE" /\ n.kind = "BlitVramRam")
               \/ (op = "READ" /\ n.kind \in {"FastFill", "BlitRamVram"})
            THEN tris = <<>> /\ count = 0
            ELSE /\ Len(tris) = 2
                 /\ \A p \in GeomGrid :
                       (InTri(Twice(tris[1]), p) \/ InTri(Twice(tris[2]), p)) <=> InRect(p)
                 /\ \A p \in GeomGrid :
                       InTri(Twice(tris[1]), p) /\ InTri(Twice(tris[2]), p)
                          => Cross(<<2 * rx, 2 * ry>>,
                                   <<2 * (rx + n.w), 2 * (ry + n.h)>>, p) = 0
                 /\ Area2(tris[1]) + Area2(tris[2]) = 2 * n.w * n.h
                 /\ Area2(tris[1]) = Area2(tris[2])
                 /\ n.w * n.h = count

\* C13 witness: the READ triangles of a 3x2 VRAM-to-VRAM blit whose source
\* and destination differ.
C13_Witness ==
    /\ lastCall.op = "getVertices"
    /\ lastCall.pixelOp = "READ"
    /\ lastCall.node.kind = "BlitVramVram"
    /\ lastCall.node.w = 3
    /\ lastCall.node.h = 2
    /\ lastCall.node.x = 2
    /\ Len(events) = 2
    /\ events[1].tri = << <<1, 0>>, <<4, 0>>, <<4, 2>> >>

\* The direction of travel along one axis: -1, 0 or 1.
Sign(n) == IF n > 0 THEN 1 ELSE IF n < 0 THEN -1 ELSE 0

\* The corner points of a sequence of triangles.
Corners(tris) == {tris[i][k] : i \in 1..Len(tris), k \in 1..3}

\* What every reading of the decomposition shares: two triangles over one
\* quad with the given corners p, q, q + o, p + o, joined along a diagonal.
IsQuad(tris, p, q, o) ==
    LET po == <<p[1] + o[1], p[2] + o[2]>>
        qo == <<q[1] + o[1], q[2] + o[2]>>
    IN  /\ Len(tris) = 2
        /\ Corners(tris) = {p, q, qo, po}
        /\ Corners(<<tris[1]>>) \cap Corners(<<tris[2]>>) = {p, qo}
        /\ Area2(tris[1]) = Area2(tris[2])

\* C14 as stated: addLine emits two triangles forming one quad; for
\* coincident endpoints the unit square at the point; otherwise the segment is
\* x-major exactly when |dx| > |dy| and y-major when not, the quad is one unit
\* thick on the other axis, and its END point is moved one unit along the
\* major axis in the direction of travel, for either sign of dx or dy.
C14_EndPointMoved ==
    lastCall.op = "addLine" =>
        LET dx    == lastCall.x2 - lastCall.x1
            dy    == lastCall.y2 - lastCall.y1
            tris  == [i \in 1..Len(events) |-> events[i].tri]
            start == <<lastCall.x1, lastCall.y1>>
        IN  IF dx = 0 /\ dy = 0
            THEN IsQuad(tris, start, <<start[1] + 1, start[2]>>, <<0, 1>>)
            ELSE IF Abs(dx) > Abs(dy)
                 THEN IsQuad(tris, start, <<lastCall.x2 + Sign(dx), lastCall.y2>>, <<0, 1>>)
                 ELSE IsQuad(tris, start, <<lastCall.x2, lastCall.y2 + Sign(dy)>>, <<1, 0>>)

\* C14 as amended: the same, except that the point moved is the one with the
\* larger coordinate on the major axis, and it is moved by plus one: the end
\* point when dx (dy) is positive, the start point when it is negative.  The
\* quad so spans from the smaller major coordinate to the larger plus one.
C14_LargerPointMoved ==
    lastCall.op = "addLine" =>
        LET dx    == lastCall.x2 - lastCall.x1
            dy    == lastCall.y2 - lastCall.y1
            tris  == [i \in 1..Len(events) |-> events[i].tri]
            start == <<lastCall.x1, lastCall.y1>>
            end   == <<lastCall.x2, lastCall.y2>>
            Up(p, k) == [p EXCEPT ![k] = @ + 1]
            Span(k)  == {c[k] : c \in Corners(tris)}
            Major(k, d) ==
                /\ IsQuad(tris, IF d > 0 THEN start ELSE Up(start, k),
                          IF d > 0 THEN Up(end, k) ELSE end,
                          IF k = 1 THEN <<0, 1>> ELSE <<1, 0>>)
                /\ \A c \in Span(k) : Min(start[k], end[k]) <= c
                /\ \A c \in Span(k) : c <= Abs(d) + Min(start[k], end[k]) + 1
                /\ {Min(start[k], end[k]), Abs(d) + Min(start[k], end[k]) + 1}
                      \subseteq Span(k)
                /\ Area2(tris[1]) + Area2(tris[2]) = 2 * (Abs(d) + 1)
        IN  IF dx = 0 /\ dy = 0
            THEN IsQuad(tris, start, <<start[1] + 1, start[2]>>, <<0, 1>>)
            ELSE IF Abs(dx) > Abs(dy) THEN Major(1, dx) ELSE Major(2, dy)

\* C14 witness: an x-major segment travelling towards smaller x.
C14_Witness ==
    /\ lastCall.op = "addLine"
    /\ lastCall.x1 = 2
    /\ lastCall.x2 = -1
    /\ lastCall.y1 = 0
    /\ lastCall.y2 = 1
    /\ events[1].tri = << <<3, 0>>, <<-1, 1>>, <<-1, 2>> >>

\* C15: saveFrameLog returns failure and writes nothing when the file cannot
\* be opened; when a write fails it returns failure and nothing reaches the
\* file after the failed write; it returns success only when the file was
\* opened and every write succeeded.
C15_ExportFailureReported ==
    lastCall.op = "saveFrameLog" =>
        LET writes == {i \in 1..Len(events) : events[i].e = "write"}
            failed == {i \in writes : ~events[i].ok}
            ret    == CHOOSE i \in 1..Len(events) : events[i].e = "return"
        IN  /\ ~lastCall.openOk => ~events[ret].value /\ writes = {}
            /\ failed # {} =>
                  /\ ~events[ret].value
                  /\ \A i \in failed, j \in writes : i < j => ~events[j].ok
            /\ events[ret].value => lastCall.openOk /\ failed = {}

\* JSON's two-character escapes after the backslash (" \ / b f n r t) and
\* the hexadecimal digits of the six-character form.
ShortEscapes == {34, 92, 47, 98, 102, 110, 114, 116}
HexDigits == (48..57) \cup (65..70) \cup (97..102)

\* out is value with every quote, backslash and character below 0x20 replaced
\* by an escape sequence and every other character copied, in order.
RECURSIVE EscapedFrom(_, _)
EscapedFrom(value, out) ==
    IF value = <<>> THEN out = <<>>
    ELSE LET c == Head(value)
         IN  IF c = 34 \/ c = 92 \/ c < 32
             THEN \/ /\ Len(out) >= 2
                     /\ out[1] = 92
                     /\ out[2] \in ShortEscapes
                     /\ EscapedFrom(Tail(value), SubSeq(out, 3, Len(out)))
                  \/ /\ Len(out) >= 6
                     /\ out[1] = 92
                     /\ out[2] = 117
                     /\ \A k \in 3..6 : out[k] \in HexDigits
                     /\ EscapedFrom(Tail(value), SubSeq(out, 7, Len(out)))
             ELSE /\ Len(out) >= 1
                  /\ out[1] = c
                  /\ EscapedFrom(Tail(value), Tail(out))

\* C16: the output of escapeJsonString holds no bare quote, no bare backslash
\* and no raw character below 0x20: each is replaced by an escape sequence,
\* and every other character is copied unchanged, in order.
C16_EscapesControlCharacters ==
    lastCall.op = "escapeJsonString" =>
        LET out == [i \in 1..Len(events) |-> events[i].c]
        IN  /\ \A i \in 1..Len(out) : out[i] >= 32
            /\ EscapedFrom(lastCall.value, out)

\* C17: recordGteState attaches the pending vertex fetches to the snapshot it
\* stores when fetch logging is enabled, and leaves no fetch pending;
\* clearFrameLog leaves no fetch pending; a vsync followed by the tracker's
\* next operation leaves no fetch of the frame before pending.
C17_PendingFetchesCommitted ==
    [][/\ lastCall'.op = "recordGteState" /\ vars' # vars =>
             /\ fetchLogging /\ m_lastGteFrame = m_frameCounter =>
                    m_lastGteState'.vertexFetches = pendingFetches
             /\ pendingFetches' = <<>>
       /\ lastCall'.op = "clearFrameLog" /\ vars' # vars => pendingFetches' = <<>>
       /\ lastCall'.op = "recordVertexFetch" /\ m_lastGteFrame # m_frameCounter =>
             Len(pendingFetches') <= 1
    ]_vars

\* C18: LogEntry, with its members in declaration order, aligned to at most
\* 4 bytes and padded to that alignment, occupies exactly 168 bytes, padding
\* included, which is the size the build-time assertion requires.
C18_LogEntrySize ==
    /\ \A i \in 1..Len(events) :
          /\ events[i].name = LogEntryFields[i].name
          /\ i > 1 => events[i].offset >= events[i - 1].offset + events[i - 1].bytes
    /\ lastCall.op = "LogEntrySizeBytes" /\ lastCall.pack = LogEntryPack =>
          /\ lastCall.align = 4
          /\ lastCall.size % 4 = 0
          /\ lastCall.size >= lastCall.end
          /\ lastCall.size > Last(events).offset + Last(events).bytes
          /\ lastCall.size = LogEntrySize

\* C18 witness: the size has been taken under pack(4), after the padding
\* before trx and the padding at the end.
C18_Witness ==
    /\ lastCall.op = "LogEntrySizeBytes"
    /\ lastCall.pack = LogEntryPack
    /\ Len(events) = Len(LogEntryFields)
    /\ events[13].name = "trx"
    /\ events[13].offset = 124
    /\ lastCall.end = 166
    /\ lastCall.size = 168

\* C19: the trace is complete for the current frame.  Once the trace belongs
\* to the current frame (the tracker's frame is the frame counter), every
\* operation before the next vsync other than clearFrameLog keeps what the
\* trace holds, in order, and recordGteState with capture enabled adds its
\* snapshot at the end; in particular the snapshots recorded in a new frame
\* are still in the trace after the frame's first command is added.
C19_TraceComplete ==
    [][/\ m_lastGteFrame = m_frameCounter
       /\ m_frameCounter' = m_frameCounter
       /\ lastCall'.op # "clearFrameLog"
       => /\ IsPrefix(m_gteFrameLog, m_gteFrameLog')
          /\ lastCall'.op = "recordGteState" /\ vars' # vars /\ m_enabled =>
                m_gteFrameLog' = Append(m_gteFrameLog, lastCall'.state)
    ]_vars

====
